---- MODULE Spec2Model ----
(***************************************************************************)
(* Model of backend/routes/videos.js: the upload (POST /upload), list      *)
(* (GET /) and removal (DELETE /:id) handlers of the video routes, the     *)
(* rows of the streamings and videos tables they read and write, the       *)
(* remote files they place and delete over SSH, and the local temp file    *)
(* multer writes for every upload.                                          *)
(*                                                                         *)
(* Every await of a handler is one step of the request that runs it, so    *)
(* that requests interleave exactly where the event loop lets them.        *)
(* Every awaited call to the database, to SSHManager or to the SMIL        *)
(* service either succeeds or throws.  fs.unlink of the request's own temp *)
(* file is taken to succeed when the file exists.                          *)
(* Columns no handler decides on (descricao, url, formato_original,        *)
(* largura, altura) are left out of the rows.                              *)
(***************************************************************************)
EXTENDS Integers, Sequences, FiniteSets, TLC

(***************************** bounds **************************************)
\* requests served at the same time
NumReqs == 2
\* requests served one after the other
MaxRequests == 3
\* streamings.espaco of every folder, in MB
Capacity == 4

Reqs == 1..NumReqs

(************************** program constants ******************************)
\* 1024 * 1024
MiB == 1048576
\* req.user.bitrate || 2500
DefaultBitrateLimit == 2500

videoExtensions ==
  {".mp4", ".avi", ".mov", ".wmv", ".flv", ".webm", ".mkv", ".3gp", ".3g2",
   ".ts", ".mpg", ".mpeg", ".ogv", ".m4v", ".asf"}

compatibleCodecs == {"h264", "h265", "hevc"}

compatibleFormats == {"mp4"}

(****************************** strings ************************************)
\* String.prototype.toLowerCase on the strings that occur in the model
toLowerCase(s) ==
  CASE s = ".MP4" -> ".mp4"
    [] s = ".MKV" -> ".mkv"
    [] s = "H264" -> "h264"
    [] s = "HEVC" -> "hevc"
    [] OTHER -> s

stripDotKept(s) == s

\* s.replace('.', '') on an extension
stripDot(s) ==
  CASE s = ".mp4" -> "mp4"
    [] s = ".MP4" -> "MP4"
    [] s = ".mkv" -> "mkv"
    [] s = ".MKV" -> "MKV"
    [] s = ".txt" -> "txt"
    [] OTHER -> s

\* A file name is represented by its extension as the client typed it, so
\* path.extname(name) is the representation itself.
extname(nome) == nome

isCompatibleCodec(codecName) == toLowerCase(codecName) \in compatibleCodecs

isCompatibleFormat(formatName, extension) ==
  stripDot(toLowerCase(extension)) \in compatibleFormats

\* Math.ceil(bytes / (1024 * 1024))
ceilMB(bytes) == (bytes + MiB - 1) \div MiB

Max(a, b) == IF a >= b THEN a ELSE b

(*************************** the two tables ********************************)
\* req.user as authMiddleware supplies it: id, the part of email before '@',
\* usuario ("" when unset) and bitrate (0 when unset).
Users ==
  { [id |-> 1, email |-> "ana", usuario |-> "", bitrate |-> 0],
    [id |-> 2, email |-> "bob", usuario |-> "", bitrate |-> 2000] }

UserIds == {u.id : u \in Users}

User(i) == CHOOSE u \in Users : u.id = i

\* rows of streamings: codigo, codigo_cliente, identificacao, espaco
Streamings ==
  { [codigo |-> 1, codigo_cliente |-> 1, identificacao |-> "f1",
     codigo_servidor |-> 0, espaco |-> Capacity],
    [codigo |-> 2, codigo_cliente |-> 1, identificacao |-> "f2",
     codigo_servidor |-> 0, espaco |-> Capacity],
    [codigo |-> 3, codigo_cliente |-> 2, identificacao |-> "f3",
     codigo_servidor |-> 0, espaco |-> Capacity] }

Codigos == {s.codigo : s \in Streamings}

Streaming(c) == CHOOSE s \in Streamings : s.codigo = c

\* req.query.folder_id: a folder of the table or one that is not there
FolderIds == Codigos \cup {9}


\* req.file.originalname (by its extension) and req.file.size in bytes
Names == {".MP4", ".mkv", ".txt"}

Sizes == {0, 1, 3 * MiB}

\* req.params.id of a removal
VideoIds == {1, 2}

(************************ the probe (getVideoInfo) *************************)
\* What ffprobe printed, when it printed a JSON document: format.duration,
\* format.bit_rate and the first video stream's codec_name and bit_rate
\* (0 stands for a field that is missing).
FirstDoc ==
  [duration |-> 10, bit_rate |-> 3000999, codec_name |-> "h264", stream_bit_rate |-> 0]

ProbeDocs ==
  { FirstDoc,
    [duration |-> 12, bit_rate |-> 0, codec_name |-> "HEVC", stream_bit_rate |-> 2000000],
    [duration |-> 7, bit_rate |-> 2000000, codec_name |-> "vp9", stream_bit_rate |-> 0] }

NoDoc == [duration |-> 0, bit_rate |-> 0, codec_name |-> "", stream_bit_rate |-> 0]

\* How the ffprobe child process ends: 'error' event, 'close' with a
\* non-zero code, 'close' with code 0 and no output, output that
\* JSON.parse refuses, or a document.
ProbeFailures == {"spawn_error", "nonzero_exit", "empty_stdout", "unparsable"}

\* The process may also never end: neither 'close' nor 'error' is emitted.
ProbeHangs == [kind |-> "never_exits", doc |-> NoDoc]

ProbeOutcomes ==
  {[kind |-> k, doc |-> NoDoc] : k \in ProbeFailures}
    \cup {[kind |-> "ok", doc |-> d] : d \in ProbeDocs}
    \cup {ProbeHangs}

\* The promise of getVideoInfo is settled by the 'close' and 'error'
\* handlers only; there is no timer.
getVideoInfoSettles(outcome) == outcome # ProbeHangs

\* getVideoInfo resolves exactly when the process closed with code 0 and
\* printed a document that parses.
getVideoInfoResolves(outcome) == outcome.kind = "ok"

\* Math.floor(parseInt(bit_rate) / 1000) || 0
kbps(bit_rate) == bit_rate \div 1000

\* let duracao = 0; let bitrateVideo = 0; let codecVideo = 'unknown'
probeDefaultsNoCodec == [duracao |-> 0, bitrateVideo |-> 0, codecVideo |-> ""]

probeDefaults == [duracao |-> 0, bitrateVideo |-> 0, codecVideo |-> "unknown"]

\* The metadata the upload handler holds after its probe block.
probeMetadata(outcome) ==
  IF getVideoInfoResolves(outcome)
    THEN [duracao |-> outcome.doc.duration,
          bitrateVideo |->
            IF kbps(outcome.doc.bit_rate) # 0
              THEN kbps(outcome.doc.bit_rate)
              ELSE kbps(outcome.doc.stream_bit_rate),
          codecVideo |->
            IF outcome.doc.codec_name # "" THEN outcome.doc.codec_name
                                           ELSE probeDefaults.codecVideo]
    ELSE probeDefaults

\* What a request may carry.  The first slot carries any of the inputs above;
\* the requests that run next to it are uploads of 3 MiB .MP4 files into
\* folder 1, probed as h264, and removals of video 1, all by user 1.
AnyInput ==
  [users |-> UserIds, folders |-> FolderIds, names |-> Names, sizes |-> Sizes,
   files |-> BOOLEAN, probes |-> ProbeOutcomes, ids |-> VideoIds]

NarrowInput ==
  [users |-> {1}, folders |-> {1}, names |-> {".MP4"}, sizes |-> {3 * MiB},
   files |-> {TRUE}, probes |-> {[kind |-> "ok", doc |-> d] : d \in {FirstDoc}},
   ids |-> {1}]

InputOf(r) == IF r = 1 THEN AnyInput ELSE NarrowInput

\* What the requests of a one-at-a-time run carry: every user, folder and
\* size, .MP4 files, probed as h264 or not probed at all.
SeqInput ==
  [users |-> UserIds, folders |-> FolderIds, names |-> {".MP4"}, sizes |-> Sizes,
   files |-> {TRUE},
   probes |-> {[kind |-> "ok", doc |-> FirstDoc], [kind |-> "nonzero_exit", doc |-> NoDoc]},
   ids |-> VideoIds]

\* What the removals of a removals-only run carry: either user, any of the
\* stored videos.
RemoveInput ==
  [users |-> UserIds, folders |-> {1}, names |-> {".MP4"}, sizes |-> {0},
   files |-> {TRUE}, probes |-> {ProbeHangs}, ids |-> {1, 2, 3}]

\* What the upload of the liveness run carries: as above, with every way
\* the probe may end or not end.
LiveInput ==
  [users |-> UserIds, folders |-> FolderIds, names |-> Names, sizes |-> Sizes,
   files |-> {TRUE}, probes |-> ProbeOutcomes, ids |-> VideoIds]

(****************************** the state **********************************)
VARIABLES
  espaco_usado,  \* streamings.espaco_usado of every folder, in MB
  videos,        \* the rows of the videos table
  nextId,        \* the AUTO_INCREMENT of videos.id
  remoteFiles,   \* the files under /home/streaming on the media server, with sizes
  tempFiles,     \* the files of /tmp/video-uploads, by req.file.filename
  started,       \* requests received so far
  pc,            \* where every request slot is in its handler
  rq,            \* req and the handler's local variables
  resp,          \* the HTTP status the request answered, 0 before that
  trace,         \* the side effects the request has performed, in order
  delta,         \* what the request has added to espaco_usado so far
  prev           \* the request the slot served before, once it has answered

vars == <<espaco_usado, videos, nextId, remoteFiles, tempFiles, started,
          pc, rq, resp, trace, delta, prev>>

NoPath == [login |-> "", folder |-> "", file |-> 0]

NoVideo ==
  [id |-> 0, nome |-> "", caminho |-> NoPath, duracao |-> 0,
   tamanho_arquivo |-> 0, codigo_cliente |-> 0, pasta |-> 0,
   bitrate_video |-> 0, codec_video |-> "", is_mp4 |-> 0, compativel |-> ""]

NoRequest ==
  [kind |-> "none", user |-> 0, folder_id |-> 0, originalname |-> "",
   size |-> 0, filename |-> 0, duracao |-> 0, bitrateVideo |-> 0,
   codecVideo |-> "", probe |-> "", found |-> FALSE, usado |-> 0, spaceMB |-> 0,
   insertId |-> 0, smil |-> "", compatibility_status |-> "",
   videoId |-> 0, row |-> NoVideo, fileSize |-> 0]

\* What is kept of a request that has answered: its kind, the id of the row
\* it inserted or asked to remove, its status, the folder it charged and the
\* espaco_usado it read there.
NoPrev == [kind |-> "none", id |-> 0, resp |-> 0, pasta |-> 0, usado |-> 0]

\* A video that was uploaded before the behaviour starts: 2 MB in folder 1.
SeedPath == [login |-> "ana", folder |-> "f1", file |-> 0]

SeedVideo ==
  [id |-> 1, nome |-> ".mp4", caminho |-> SeedPath, duracao |-> 10,
   tamanho_arquivo |-> MiB + 1, codigo_cliente |-> 1, pasta |-> 1,
   bitrate_video |-> 3000, codec_video |-> "h264", is_mp4 |-> 1,
   compativel |-> "sim"]

Init ==
  /\ \E seeded \in BOOLEAN :
       /\ videos = IF seeded THEN {SeedVideo} ELSE {}
       /\ remoteFiles =
            IF seeded THEN {[path |-> SeedPath, size |-> SeedVideo.tamanho_arquivo]}
                      ELSE {}
       /\ nextId = IF seeded THEN 2 ELSE 1
       /\ espaco_usado =
            [c \in Codigos |->
               IF seeded /\ c = 1 THEN ceilMB(SeedVideo.tamanho_arquivo) ELSE 0]
  /\ tempFiles = {}
  /\ started = 0
  /\ pc = [r \in Reqs |-> "idle"]
  /\ rq = [r \in Reqs |-> NoRequest]
  /\ resp = [r \in Reqs |-> 0]
  /\ trace = [r \in Reqs |-> <<>>]
  /\ delta = [r \in Reqs |-> 0]
  /\ prev = NoPrev

\* A folder that already holds three uploaded videos: the 2 MB one above, a
\* 1-byte one and an empty one, 3 MB charged in all.
StoredVideos ==
  { SeedVideo,
    [SeedVideo EXCEPT !.id = 2, !.caminho.file = 1, !.tamanho_arquivo = 1],
    [SeedVideo EXCEPT !.id = 3, !.caminho.file = 2, !.tamanho_arquivo = 0] }

RECURSIVE sumMB(_)
sumMB(rows) ==
  IF rows = {} THEN 0
  ELSE LET v == CHOOSE x \in rows : TRUE
       IN ceilMB(v.tamanho_arquivo) + sumMB(rows \ {v})

InitStored ==
  /\ videos = StoredVideos
  /\ remoteFiles = {[path |-> v.caminho, size |-> v.tamanho_arquivo] : v \in StoredVideos}
  /\ nextId = 4
  /\ espaco_usado = [c \in Codigos |-> IF c = 1 THEN sumMB(StoredVideos) ELSE 0]
  /\ tempFiles = {}
  /\ started = 0
  /\ pc = [r \in Reqs |-> "idle"]
  /\ rq = [r \in Reqs |-> NoRequest]
  /\ resp = [r \in Reqs |-> 0]
  /\ trace = [r \in Reqs |-> <<>>]
  /\ delta = [r \in Reqs |-> 0]
  /\ prev = NoPrev

(************************** shared helpers *********************************)
\* res.status(code).json(...) followed by the end of the handler
Answer(r, code) ==
  /\ resp' = [resp EXCEPT ![r] = code]
  /\ pc' = [pc EXCEPT ![r] = "done"]

Did(r, effect) == trace' = [trace EXCEPT ![r] = Append(@, effect)]

\* await fs.unlink(req.file.path).catch(() => { })
unlinkKept(files, filename) == files

unlink(files, filename) == files \ {filename}


(************************ POST /upload, step by step ***********************)
userLogin(u) == User(u).email

\* multer stored the file (or the request had none) and the handler starts.
ReceiveUpload(r, in) ==
  /\ pc[r] = "idle"
  /\ UNCHANGED prev
  /\ started < MaxRequests
  /\ started' = started + 1
  /\ \E u \in in.users, f \in in.folders, n \in in.names, sz \in in.sizes,
        hasFile \in in.files :
       IF hasFile
         THEN /\ rq' = [rq EXCEPT ![r] =
                   [NoRequest EXCEPT !.kind = "upload", !.user = u,
                      !.folder_id = f, !.originalname = n, !.size = sz,
                      !.filename = started + 1]]
              /\ tempFiles' = tempFiles \cup {started + 1}
              /\ pc' = [pc EXCEPT ![r] = "validate"]
              /\ UNCHANGED resp
         ELSE /\ rq' = [rq EXCEPT ![r] =
                   [NoRequest EXCEPT !.kind = "upload", !.user = u, !.folder_id = f]]
              /\ Answer(r, 400)
              /\ UNCHANGED tempFiles
  /\ UNCHANGED <<espaco_usado, videos, nextId, remoteFiles, trace, delta>>

fileExtension(r) == toLowerCase(extname(rq[r].originalname))

\* the extension check of lines 262-275
ValidateExtension(r) ==
  /\ pc[r] = "validate"
  /\ UNCHANGED prev
  /\ IF fileExtension(r) \notin videoExtensions
       THEN /\ tempFiles' = unlink(tempFiles, rq[r].filename)
            /\ Answer(r, 400)
       ELSE /\ pc' = [pc EXCEPT ![r] = "probe"]
            /\ UNCHANGED <<tempFiles, resp>>
  /\ UNCHANGED <<espaco_usado, videos, nextId, remoteFiles, started, rq, trace, delta>>

\* the probe block of lines 278-321: a rejected getVideoInfo is caught and
\* the defaults stay; while the promise is pending the handler stays at its
\* await ("probing")
Probe(r, in) ==
  /\ pc[r] = "probe"
  /\ UNCHANGED prev
  /\ \E outcome \in in.probes :
       /\ rq' = [rq EXCEPT ![r].probe = outcome.kind,
                        ![r].duracao = probeMetadata(outcome).duracao,
                        ![r].bitrateVideo = probeMetadata(outcome).bitrateVideo,
                        ![r].codecVideo = probeMetadata(outcome).codecVideo]
       /\ pc' = [pc EXCEPT ![r] =
                   IF getVideoInfoSettles(outcome) THEN "lookup" ELSE "probing"]
  /\ UNCHANGED <<espaco_usado, videos, nextId, remoteFiles, tempFiles, started,
                 resp, trace, delta>>

\* SELECT ... FROM streamings s
\*  WHERE s.codigo = ? AND (s.codigo_cliente = ? OR s.codigo = ?)
userRows(folderId, userId) ==
  {s \in Streamings :
     s.codigo = folderId /\ (s.codigo_cliente = userId \/ s.codigo = userId)}

quotaIgnoresUsed(spaceMB, espaco, usado) == spaceMB > espaco

\* spaceMB > availableSpace, with availableSpace = espaco - espaco_usado
quotaExceeded(spaceMB, espaco, usado) == spaceMB > espaco - usado

\* the outer catch of lines 476-482
OuterCatch(r, thrown) ==
  /\ tempFiles' = unlink(tempFiles, rq[r].filename)
  /\ Did(r, thrown)
  /\ Answer(r, 500)

\* the inner catch of lines 471-475, which rethrows into the outer one
InnerCatch(r, thrown) == OuterCatch(r, thrown)

\* lines 325-361: the folder lookup and the quota check that follows it
\* without an await in between
LookupFolder(r) ==
  /\ pc[r] = "lookup"
  /\ UNCHANGED prev
  /\ \E ok \in BOOLEAN :
       IF ~ok
         THEN /\ OuterCatch(r, "select_failed")
              /\ UNCHANGED rq
         ELSE IF userRows(rq[r].folder_id, rq[r].user) = {}
           THEN /\ Answer(r, 404)
                /\ UNCHANGED <<rq, tempFiles, trace>>
           ELSE LET spaceMB == ceilMB(rq[r].size)
                    espaco == Streaming(rq[r].folder_id).espaco
                    usado == espaco_usado[rq[r].folder_id]
                IN /\ rq' = [rq EXCEPT ![r].found = TRUE, ![r].spaceMB = spaceMB,
                                        ![r].usado = usado]
                   /\ UNCHANGED trace
                   /\ IF quotaExceeded(spaceMB, espaco, usado)
                        THEN /\ tempFiles' = unlink(tempFiles, rq[r].filename)
                             /\ Answer(r, 400)
                        ELSE /\ pc' = [pc EXCEPT ![r] = "structure"]
                             /\ UNCHANGED <<tempFiles, resp>>
  /\ UNCHANGED <<espaco_usado, videos, nextId, remoteFiles, started, delta>>

\* SSHManager.createCompleteUserStructure (line 365)
CreateStructure(r) ==
  /\ pc[r] = "structure"
  /\ UNCHANGED prev
  /\ \E ok \in BOOLEAN :
       IF ok
         THEN /\ Did(r, "mkdir")
              /\ pc' = [pc EXCEPT ![r] = "folder"]
              /\ UNCHANGED <<tempFiles, resp>>
         ELSE InnerCatch(r, "mkdir_failed")
  /\ UNCHANGED <<espaco_usado, videos, nextId, remoteFiles, started, rq, delta>>

\* SSHManager.createUserFolder (line 370)
CreateFolder(r) ==
  /\ pc[r] = "folder"
  /\ UNCHANGED prev
  /\ \E ok \in BOOLEAN :
       IF ok
         THEN /\ Did(r, "mkfolder")
              /\ pc' = [pc EXCEPT ![r] = "transfer"]
              /\ UNCHANGED <<tempFiles, resp>>
         ELSE InnerCatch(r, "mkfolder_failed")
  /\ UNCHANGED <<espaco_usado, videos, nextId, remoteFiles, started, rq, delta>>

\* `/home/streaming/${userLogin}/${folderName}/${req.file.filename}`
remotePath(r) ==
  [login |-> userLogin(rq[r].user),
   folder |-> Streaming(rq[r].folder_id).identificacao,
   file |-> rq[r].filename]

\* SSHManager.uploadFile, then fs.unlink of the temp file (lines 373-375)
Transfer(r) ==
  /\ pc[r] = "transfer"
  /\ UNCHANGED prev
  /\ \E ok \in BOOLEAN :
       IF ok
         THEN /\ remoteFiles' =
                   {f \in remoteFiles : f.path # remotePath(r)}
                     \cup {[path |-> remotePath(r), size |-> rq[r].size]}
              /\ tempFiles' = unlink(tempFiles, rq[r].filename)
              /\ Did(r, "put")
              /\ pc' = [pc EXCEPT ![r] = "insert"]
              /\ UNCHANGED resp
         ELSE /\ InnerCatch(r, "put_failed")
              /\ UNCHANGED remoteFiles
  /\ UNCHANGED <<espaco_usado, videos, nextId, started, rq, delta>>

\* lines 388-394
isMP4(r) == fileExtension(r) = ".mp4"

needsConversion(r) == ~isMP4(r) \/ ~isCompatibleCodec(rq[r].codecVideo)

\* the row of lines 397-419
newVideo(r) ==
  [id |-> nextId, nome |-> rq[r].originalname, caminho |-> remotePath(r),
   duracao |-> rq[r].duracao, tamanho_arquivo |-> rq[r].size,
   codigo_cliente |-> rq[r].user, pasta |-> rq[r].folder_id,
   bitrate_video |-> rq[r].bitrateVideo, codec_video |-> rq[r].codecVideo,
   is_mp4 |-> IF isMP4(r) THEN 1 ELSE 0,
   compativel |-> IF needsConversion(r) THEN "nao" ELSE "sim"]

\* INSERT INTO videos (lines 397-419)
InsertVideo(r) ==
  /\ pc[r] = "insert"
  /\ UNCHANGED prev
  /\ \E ok \in BOOLEAN :
       IF ok
         THEN /\ videos' = videos \cup {newVideo(r)}
              /\ nextId' = nextId + 1
              /\ rq' = [rq EXCEPT ![r].insertId = nextId]
              /\ Did(r, "insert")
              /\ pc' = [pc EXCEPT ![r] = "quota"]
              /\ UNCHANGED <<tempFiles, resp>>
         ELSE /\ InnerCatch(r, "insert_failed")
              /\ UNCHANGED <<videos, nextId, rq>>
  /\ UNCHANGED <<espaco_usado, remoteFiles, started, delta>>

\* UPDATE streamings SET espaco_usado = espaco_usado + ? WHERE codigo = ?
UpdateQuota(r) ==
  /\ pc[r] = "quota"
  /\ UNCHANGED prev
  /\ \E ok \in BOOLEAN :
       IF ok
         THEN /\ espaco_usado' =
                   [espaco_usado EXCEPT ![rq[r].folder_id] = @ + rq[r].spaceMB]
              /\ delta' = [delta EXCEPT ![r] = @ + rq[r].spaceMB]
              /\ Did(r, "commit")
              /\ pc' = [pc EXCEPT ![r] = "smil"]
              /\ UNCHANGED <<tempFiles, resp>>
         ELSE /\ InnerCatch(r, "commit_failed")
              /\ UNCHANGED <<espaco_usado, delta>>
  /\ UNCHANGED <<videos, nextId, remoteFiles, started, rq>>

\* Lines 440-470, the response built after the SMIL block.  With
\* needsConversion false the handler evaluates userBitrateLimit, which no
\* scope of the upload handler declares: a ReferenceError is thrown into the
\* catch blocks and the request answers 500.  smilOk does not matter: the
\* SMIL block catches its own error.
respondAfterSmilThrow(smilOk, needsConv) ==
  IF ~smilOk
    THEN [status |-> 500, compatibility_status |-> ""]
    ELSE IF needsConv
      THEN [status |-> 201, compatibility_status |-> "Necessário Conversão"]
      ELSE [status |-> 500, compatibility_status |-> ""]

respond(smilOk, needsConv) ==
  IF needsConv
    THEN [status |-> 201, compatibility_status |-> "Necessário Conversão"]
    ELSE [status |-> 500, compatibility_status |-> ""]

\* PlaylistSMILService.updateUserSMIL in its own try/catch (lines 430-436)
\* and the response of lines 440-470, which follows without an await
RefreshSmilAndRespond(r) ==
  /\ pc[r] = "smil"
  /\ UNCHANGED prev
  /\ \E ok \in BOOLEAN :
       LET out == respond(ok, needsConversion(r))
           refreshed == IF ok THEN "smil" ELSE "smil_failed"
       IN /\ rq' = [rq EXCEPT ![r].smil = IF ok THEN "ok" ELSE "failed",
                              ![r].compatibility_status = out.compatibility_status]
          /\ trace' = [trace EXCEPT ![r] =
               IF out.status = 201 THEN Append(@, refreshed)
                                   ELSE Append(Append(@, refreshed), "respond_failed")]
          /\ Answer(r, out.status)
          /\ tempFiles' = IF out.status = 201 THEN tempFiles
                                              ELSE unlink(tempFiles, rq[r].filename)
  /\ UNCHANGED <<espaco_usado, videos, nextId, remoteFiles, started, delta>>

\* the response is out; the slot serves the next request
summary(r) ==
  [kind |-> rq[r].kind,
   id |-> IF rq[r].kind = "upload" THEN rq[r].insertId ELSE rq[r].videoId,
   resp |-> resp[r],
   pasta |-> IF rq[r].kind = "upload" THEN rq[r].folder_id ELSE rq[r].row.pasta,
   usado |-> rq[r].usado]

Finish(r) ==
  /\ pc[r] = "done"
  /\ prev' = summary(r)
  /\ pc' = [pc EXCEPT ![r] = "idle"]
  /\ rq' = [rq EXCEPT ![r] = NoRequest]
  /\ resp' = [resp EXCEPT ![r] = 0]
  /\ trace' = [trace EXCEPT ![r] = <<>>]
  /\ delta' = [delta EXCEPT ![r] = 0]
  /\ UNCHANGED <<espaco_usado, videos, nextId, remoteFiles, tempFiles, started>>

(************************** GET /, per returned row ************************)
\* req.user.bitrate || 2500
userBitrateLimit(u) ==
  IF User(u).bitrate # 0 THEN User(u).bitrate ELSE DefaultBitrateLimit

\* lines 190-213: the compatibility fields of one row of the listing
listVerdict(video, limit) ==
  LET bitrateExceedsLimit == video.bitrate_video > limit
      isMP4stored == video.is_mp4 = 1
      codecCompatible == isCompatibleCodec(video.codec_video)
      formatCompatible ==
        isCompatibleFormat("", toLowerCase(extname(video.nome)))
      needsConv == ~isMP4stored \/ ~codecCompatible \/ ~formatCompatible
  IN [needs_conversion |-> needsConv,
      bitrate_exceeds_limit |-> bitrateExceedsLimit,
      compatibility_status |->
        IF needsConv THEN "needs_conversion"
        ELSE IF bitrateExceedsLimit THEN "bitrate_high" ELSE "compatible"]

(************************ DELETE /:id, step by step ************************)
\* req.user.usuario || req.user.email?.split('@')[0] || `user_${userId}`
removerLogin(u) == IF User(u).usuario # "" THEN User(u).usuario ELSE User(u).email

ReceiveRemove(r, in) ==
  /\ pc[r] = "idle"
  /\ UNCHANGED prev
  /\ started < MaxRequests
  /\ started' = started + 1
  /\ \E u \in in.users, id \in in.ids :
       rq' = [rq EXCEPT ![r] =
                [NoRequest EXCEPT !.kind = "remove", !.user = u, !.videoId = id]]
  /\ pc' = [pc EXCEPT ![r] = "findvideo"]
  /\ UNCHANGED <<espaco_usado, videos, nextId, remoteFiles, tempFiles, resp,
                 trace, delta>>

\* SELECT caminho, nome, tamanho_arquivo, pasta FROM videos WHERE id = ?
\*  AND (codigo_cliente = ? OR codigo_cliente IN
\*       (SELECT codigo FROM streamings WHERE codigo_cliente = ?))
videoRows(videoId, userId) ==
  {v \in videos :
     /\ v.id = videoId
     /\ \/ v.codigo_cliente = userId
        \/ v.codigo_cliente \in
             {s.codigo : s \in {t \in Streamings : t.codigo_cliente = userId}}}

\* caminho.includes(`/${login}/`) on /home/streaming/<login>/<folder>/<file>
caminhoIncludes(caminho, login) ==
  login \in {"home", "streaming", caminho.login, caminho.folder}

\* the catch of lines 618-621
RemoveCatch(r, thrown) ==
  /\ Did(r, thrown)
  /\ Answer(r, 500)

\* lines 549-562
FindVideo(r) ==
  /\ pc[r] = "findvideo"
  /\ UNCHANGED prev
  /\ \E ok \in BOOLEAN :
       IF ~ok
         THEN /\ RemoveCatch(r, "select_failed")
              /\ UNCHANGED rq
         ELSE IF videoRows(rq[r].videoId, rq[r].user) = {}
           THEN /\ Answer(r, 404)
                /\ UNCHANGED <<rq, trace>>
           ELSE LET row == CHOOSE v \in videoRows(rq[r].videoId, rq[r].user) : TRUE
                IN IF ~caminhoIncludes(row.caminho, removerLogin(rq[r].user))
                     THEN /\ rq' = [rq EXCEPT ![r].row = row]
                          /\ Answer(r, 403)
                          /\ UNCHANGED trace
                     ELSE /\ rq' = [rq EXCEPT ![r].row = row,
                                              ![r].fileSize = row.tamanho_arquivo]
                          /\ pc' = [pc EXCEPT ![r] = "findserver"]
                          /\ UNCHANGED <<resp, trace>>
  /\ UNCHANGED <<espaco_usado, videos, nextId, remoteFiles, tempFiles, started,
                 delta>>

\* lines 565-577: SELECT codigo_servidor, then stat only when the stored
\* size is 0
skipRemoteDelete(fileSize) == "recdelete"

\* what follows the server lookup: if (!fileSize) stat first, else delete
afterFindServer(fileSize) == IF fileSize = 0 THEN "stat" ELSE "rdelete"

FindServer(r) ==
  /\ pc[r] = "findserver"
  /\ UNCHANGED prev
  /\ \E ok \in BOOLEAN :
       IF ok
         THEN /\ pc' = [pc EXCEPT ![r] = afterFindServer(rq[r].fileSize)]
              /\ UNCHANGED <<resp, trace>>
         ELSE RemoveCatch(r, "select_failed")
  /\ UNCHANGED <<espaco_usado, videos, nextId, remoteFiles, tempFiles, started,
                 rq, delta>>

\* SSHManager.getFileInfo: exists and size of a path on the server
fileExists(path) == \E f \in remoteFiles : f.path = path

fileInfoSize(path) == (CHOOSE f \in remoteFiles : f.path = path).size

\* lines 577-584: fileInfo.exists ? fileInfo.size : 0; a throw leaves 0
StatRemote(r) ==
  /\ pc[r] = "stat"
  /\ UNCHANGED prev
  /\ \E ok \in BOOLEAN :
       /\ rq' = [rq EXCEPT ![r].fileSize =
                   IF ok /\ fileExists(rq[r].row.caminho)
                     THEN fileInfoSize(rq[r].row.caminho) ELSE 0]
       /\ Did(r, IF ok THEN "stat" ELSE "stat_failed")
  /\ pc' = [pc EXCEPT ![r] = "rdelete"]
  /\ UNCHANGED <<espaco_usado, videos, nextId, remoteFiles, tempFiles, started,
                 resp, delta>>

afterDeleteFileRethrown(ok) == IF ok THEN "rsmil" ELSE "done"

\* the try/catch of lines 587-601: where the handler goes on after
\* SSHManager.deleteFile returned (ok) or threw
afterDeleteFile(ok) == IF ok THEN "rsmil" ELSE "recdelete"

\* SSHManager.deleteFile (line 588); its throw skips the SMIL refresh
DeleteRemote(r) ==
  /\ pc[r] = "rdelete"
  /\ UNCHANGED prev
  /\ \E ok \in BOOLEAN :
       IF ok
         THEN /\ remoteFiles' = {f \in remoteFiles : f.path # rq[r].row.caminho}
              /\ Did(r, "rdel")
              /\ pc' = [pc EXCEPT ![r] = afterDeleteFile(TRUE)]
         ELSE /\ Did(r, "rdel_failed")
              /\ pc' = [pc EXCEPT ![r] = afterDeleteFile(FALSE)]
              /\ UNCHANGED remoteFiles
  /\ UNCHANGED <<espaco_usado, videos, nextId, tempFiles, started, rq, resp, delta>>

\* PlaylistSMILService.updateUserSMIL in its own try/catch (lines 592-598)
RefreshSmilAfterRemove(r) ==
  /\ pc[r] = "rsmil"
  /\ UNCHANGED prev
  /\ \E ok \in BOOLEAN :
       /\ rq' = [rq EXCEPT ![r].smil = IF ok THEN "ok" ELSE "failed"]
       /\ Did(r, IF ok THEN "smil" ELSE "smil_failed")
  /\ pc' = [pc EXCEPT ![r] = "recdelete"]
  /\ UNCHANGED <<espaco_usado, videos, nextId, remoteFiles, tempFiles, started,
                 resp, delta>>

deleteNoRow(rows, id) == rows

\* the rows left by DELETE FROM videos WHERE id = ?
deleteRow(rows, id) == {v \in rows : v.id # id}

\* DELETE FROM videos WHERE id = ? (line 604)
DeleteRecord(r) ==
  /\ pc[r] = "recdelete"
  /\ UNCHANGED prev
  /\ \E ok \in BOOLEAN :
       IF ok
         THEN /\ videos' = deleteRow(videos, rq[r].videoId)
              /\ Did(r, "recdel")
              /\ pc' = [pc EXCEPT ![r] = "release"]
              /\ UNCHANGED resp
         ELSE /\ RemoveCatch(r, "recdel_failed")
              /\ UNCHANGED videos
  /\ UNCHANGED <<espaco_usado, nextId, remoteFiles, tempFiles, started, rq, delta>>

releaseUnfloored(usado, spaceMB) == usado - spaceMB

\* GREATEST(espaco_usado - ?, 0)
release(usado, spaceMB) == Max(usado - spaceMB, 0)

freedMBFloor(fileSize) == fileSize \div MiB

\* Math.ceil((fileSize) / (1024 * 1024)) of line 607
freedMB(fileSize) == ceilMB(fileSize)

\* UPDATE streamings SET espaco_usado = GREATEST(espaco_usado - ?, 0)
\*  WHERE codigo = ? (lines 607-617), then the success response
ReleaseQuota(r) ==
  /\ pc[r] = "release"
  /\ UNCHANGED prev
  /\ \E ok \in BOOLEAN :
       IF ok
         THEN LET pasta == rq[r].row.pasta
                  spaceMB == freedMB(rq[r].fileSize)
              IN /\ rq' = [rq EXCEPT ![r].spaceMB = spaceMB,
                                      ![r].usado =
                                        IF pasta \in Codigos THEN espaco_usado[pasta]
                                                             ELSE 0]
                 /\ espaco_usado' =
                      [c \in Codigos |->
                         IF c = pasta THEN release(espaco_usado[c], spaceMB)
                                      ELSE espaco_usado[c]]
                 /\ delta' = [delta EXCEPT ![r] =
                      IF pasta \in Codigos
                        THEN @ + release(espaco_usado[pasta], spaceMB) - espaco_usado[pasta]
                        ELSE @]
                 /\ Did(r, "release")
                 /\ Answer(r, 200)
         ELSE /\ RemoveCatch(r, "release_failed")
              /\ UNCHANGED <<espaco_usado, delta, rq>>
  /\ UNCHANGED <<videos, nextId, remoteFiles, tempFiles, started>>

(**************************** specifications *******************************)
UploadStep(r, in) ==
  \/ ReceiveUpload(r, in)
  \/ ValidateExtension(r)
  \/ Probe(r, in)
  \/ LookupFolder(r)
  \/ CreateStructure(r)
  \/ CreateFolder(r)
  \/ Transfer(r)
  \/ InsertVideo(r)
  \/ UpdateQuota(r)
  \/ RefreshSmilAndRespond(r)

RemoveStep(r, in) ==
  \/ ReceiveRemove(r, in)
  \/ FindVideo(r)
  \/ FindServer(r)
  \/ StatRemote(r)
  \/ DeleteRemote(r)
  \/ RefreshSmilAfterRemove(r)
  \/ DeleteRecord(r)
  \/ ReleaseQuota(r)

\* NumReqs requests, one per slot, interleaved at their awaits.
Next == \E r \in Reqs : UploadStep(r, InputOf(r)) \/ RemoveStep(r, InputOf(r))

Spec == Init /\ [][Next]_vars

\* MaxRequests requests, each run to its response before the next starts.
NextSeq == UploadStep(1, SeqInput) \/ RemoveStep(1, SeqInput) \/ Finish(1)

SpecSeq == Init /\ [][NextSeq]_vars

\* One upload, every step of which is taken once it can be: the database,
\* the SSH calls and the event loop do their part.
NextLive == UploadStep(1, LiveInput)

SpecLive == Init /\ [][NextLive]_vars /\ WF_vars(NextLive)

\* NumReqs removals, interleaved at their awaits, on a folder with stored
\* videos.
NextRemove == \E r \in Reqs : RemoveStep(r, RemoveInput)

SpecRemove == InitStored /\ [][NextRemove]_vars

(******************************* properties ********************************)
Has(r, effect) == \E i \in 1..Len(trace[r]) : trace[r][i] = effect

IsUpload(r) == rq[r].kind = "upload"

\* the request got a file from multer
GotFile(r) == IsUpload(r) /\ rq[r].filename # 0

TempExists(r) == rq[r].filename \in tempFiles

RecordOf(r) == {v \in videos : v.caminho.file = rq[r].filename}

RemoteFileOf(r) == {f \in remoteFiles : f.path.file = rq[r].filename}

\* another request has deleted the row this upload inserted
RecordRemovedByOther(r) ==
  \E q \in Reqs \ {r} :
    rq[q].kind = "remove" /\ rq[q].row.id = rq[r].insertId /\ Has(q, "recdel")

\* another request has deleted the remote file this upload placed
FileRemovedByOther(r) ==
  \E q \in Reqs \ {r} :
    rq[q].kind = "remove" /\ rq[q].row.id = rq[r].insertId /\ Has(q, "rdel")

\* C1: whatever the interleaving of concurrent uploads to one folder, the
\* folder's espaco_usado never exceeds its espaco.
C1_UsedNeverExceedsCapacity ==
  \A c \in Codigos : espaco_usado[c] <= Streaming(c).espaco

\* C2: when uploads and removals run one at a time, each to its response,
\* 0 <= espaco_usado <= espaco holds for every folder throughout.
C2_SequentialQuotaInvariant ==
  \A c \in Codigos : 0 <= espaco_usado[c] /\ espaco_usado[c] <= Streaming(c).espaco

\* a removal has released the quota of a video uploaded in this run, and a
\* folder holds data again
C2_Witness ==
  /\ rq[1].kind = "remove" /\ resp[1] = 200 /\ delta[1] < 0
  /\ rq[1].row.caminho.file > 0
  /\ \E c \in Codigos : espaco_usado[c] > 0

\* the upload read a folder whose free space is below ceil(size / 1 MiB)
QuotaShort(r) ==
  /\ IsUpload(r) /\ rq[r].found
  /\ ceilMB(rq[r].size) > Streaming(rq[r].folder_id).espaco - rq[r].usado

\* C3: an upload whose ceil(size / 1 MiB) exceeds the free space it read is
\* answered 400 with no remote directory, no transfer, no row, no change to
\* espaco_usado, and its temp file deleted.
C3_QuotaRejectedWithoutEffects ==
  \A r \in Reqs :
    QuotaShort(r) =>
      /\ pc[r] = "done" /\ resp[r] = 400
      /\ trace[r] = <<>>
      /\ delta[r] = 0
      /\ RecordOf(r) = {} /\ RemoteFileOf(r) = {}
      /\ ~TempExists(r)

\* a 3 MB upload met a folder holding 2 of its 4 MB
C3_Witness ==
  \E r \in Reqs :
    QuotaShort(r) /\ resp[r] = 400 /\ rq[r].usado = 2 /\ rq[r].spaceMB = 3

\* C4: once an upload that received a file has answered, whatever the exit
\* path, its temp file is gone.
C4_TempFileGoneAtResponse ==
  \A r \in Reqs : (GotFile(r) /\ resp[r] # 0) => ~TempExists(r)

\* C5: when the INSERT fails after the transfer, the remote file is deleted
\* and espaco_usado is as before the request.
C5_InsertFailureDeletesRemoteFile ==
  \A r \in Reqs :
    (IsUpload(r) /\ Has(r, "insert_failed")) =>
      RemoteFileOf(r) = {} /\ delta[r] = 0

\* the upload failed while creating the remote directories or transferring
PlacementFailed(r) ==
  /\ IsUpload(r)
  /\ Has(r, "mkdir_failed") \/ Has(r, "mkfolder_failed") \/ Has(r, "put_failed")

\* C6: an upload whose remote directory creation or transfer fails answers
\* 500, inserts no row, leaves espaco_usado alone and deletes its temp file.
C6_PlacementFailureLeavesNothing ==
  \A r \in Reqs :
    PlacementFailed(r) =>
      /\ pc[r] = "done" /\ resp[r] = 500
      /\ ~Has(r, "insert") /\ RecordOf(r) = {}
      /\ delta[r] = 0
      /\ ~TempExists(r)

C6_Witness ==
  \E r \in Reqs : Has(r, "put_failed") /\ Has(r, "mkfolder") /\ resp[r] = 500

ProbeFailed(r) == IsUpload(r) /\ rq[r].probe \in ProbeFailures

\* C7: when the probe fails and every later stage succeeds, the upload
\* answers 201 and the row it inserted has duracao 0, bitrate_video 0 and
\* codec_video "unknown".
C7_ProbeFailureKeepsDefaults ==
  \A r \in Reqs :
    /\ (ProbeFailed(r) /\ Has(r, "insert")) =>
         /\ RecordOf(r) # {} \/ RecordRemovedByOther(r)
         /\ \A v \in RecordOf(r) :
              /\ v.id = rq[r].insertId
              /\ v.duracao = 0 /\ v.bitrate_video = 0 /\ v.codec_video = "unknown"
    /\ (ProbeFailed(r) /\ Has(r, "commit") /\ pc[r] = "done") => resp[r] = 201

C7_Witness ==
  \E r \in Reqs :
    /\ ProbeFailed(r) /\ rq[r].probe = "unparsable" /\ resp[r] = 201
    /\ \E v \in RecordOf(r) : v.codec_video = "unknown"

\* the compatibility_status of an upload response, as a verdict
verdictOfMessage(message) ==
  CASE message = "Necessário Conversão" -> "needs_conversion"
    [] message = "Bitrate Alto" -> "bitrate_high"
    [] message = "Vídeo compatível" -> "compatible"
    [] OTHER -> "none"

\* the upload placed its file, inserted its row and committed its quota
Committed(r) == IsUpload(r) /\ Has(r, "commit") /\ pc[r] = "done"

\* C8: an upload of a .mp4 file with a compatible codec whose placement,
\* insert and quota update succeed answers 201 with the verdict
\* bitrate_high when the bitrate is above the account's ceiling and
\* compatible otherwise.
C8_CompatibleUploadAnswersVerdict ==
  \A r \in Reqs :
    (Committed(r) /\ isMP4(r) /\ isCompatibleCodec(rq[r].codecVideo)) =>
      /\ resp[r] = 201
      /\ verdictOfMessage(rq[r].compatibility_status) =
           IF rq[r].bitrateVideo > userBitrateLimit(rq[r].user)
             THEN "bitrate_high" ELSE "compatible"

\* the status the claim gives to extension, codec, bitrate and ceiling
claimedStatus(is_mp4, codec, bitrate, ceiling) ==
  IF ~is_mp4 \/ toLowerCase(codec) \notin {"h264", "h265", "hevc"}
    THEN "needs_conversion"
    ELSE IF bitrate > ceiling THEN "bitrate_high" ELSE "compatible"

\* C9, list path: every row, listed for every account
C9_ListPath ==
  \A v \in videos, u \in UserIds :
    listVerdict(v, userBitrateLimit(u)).compatibility_status =
      claimedStatus(toLowerCase(extname(v.nome)) = ".mp4", v.codec_video,
                    v.bitrate_video, userBitrateLimit(u))

\* C9, upload path: every committed upload
C9_UploadPath ==
  \A r \in Reqs :
    Committed(r) =>
      verdictOfMessage(rq[r].compatibility_status) =
        claimedStatus(fileExtension(r) = ".mp4", rq[r].codecVideo,
                      rq[r].bitrateVideo, userBitrateLimit(rq[r].user))

\* C9: on the list path and on the upload path the status is
\* needs_conversion whenever the file is not .mp4 or the codec is not
\* h264/h265/hevc, bitrate_high only when no conversion is needed and the
\* bitrate is above the ceiling, and compatible otherwise.
C9_StatusPrecedenceOnBothPaths == C9_ListPath /\ C9_UploadPath

SmilFailed(r) == IsUpload(r) /\ rq[r].smil = "failed"

\* C10: when the SMIL refresh fails after the row is inserted and the quota
\* committed, the row, the remote file and the increment of espaco_usado
\* stay, and the request answers what it answers when the refresh succeeds.
C10_SmilFailureRollsNothingBack ==
  \A r \in Reqs :
    SmilFailed(r) =>
      /\ pc[r] = "done"
      /\ resp[r] = respond(TRUE, needsConversion(r)).status
      /\ rq[r].compatibility_status =
           respond(TRUE, needsConversion(r)).compatibility_status
      /\ delta[r] = rq[r].spaceMB
      /\ RecordOf(r) # {} \/ RecordRemovedByOther(r)
      /\ RemoteFileOf(r) # {} \/ FileRemovedByOther(r)

C10_Witness ==
  \E r \in Reqs :
    /\ SmilFailed(r) /\ resp[r] = 201 /\ delta[r] = 3
    /\ RecordOf(r) # {} /\ RemoteFileOf(r) # {}

IsRemove(r) == rq[r].kind = "remove"

\* the removal's SELECT returned a row
RowFound(r) == IsRemove(r) /\ rq[r].row.id # 0

\* the request before this removal removed the same row and answered 200
RemovedJustBefore(r) ==
  /\ IsRemove(r)
  /\ prev.kind = "remove" /\ prev.resp = 200 /\ prev.id = rq[r].videoId

\* C11: a second removal of a row right after a successful one finds no row:
\* it answers 404 once its SELECT returns and never touches espaco_usado, so
\* the two requests release the quota once.
C11_SecondRemovalNotFound ==
  \A r \in Reqs :
    RemovedJustBefore(r) =>
      /\ pc[r] \in {"findvideo", "done"}
      /\ ~RowFound(r)
      /\ delta[r] = 0 /\ ~Has(r, "release") /\ ~Has(r, "recdel")
      /\ (pc[r] = "done" /\ ~Has(r, "select_failed")) => resp[r] = 404

C11_Witness ==
  \E r \in Reqs : RemovedJustBefore(r) /\ resp[r] = 404 /\ prev.usado = 3

\* the request before this removal uploaded the row and answered 201
UploadedJustBefore(r) ==
  /\ IsRemove(r)
  /\ prev.kind = "upload" /\ prev.resp = 201
  /\ prev.id # 0 /\ prev.id = rq[r].videoId

\* C12: a successful upload followed by a successful removal of its row
\* leaves espaco_usado of the folder at the value the upload found: the
\* removal frees the ceil(size / 1 MiB) the upload charged.
C12_UploadThenRemoveRestoresUsed ==
  \A r \in Reqs :
    (UploadedJustBefore(r) /\ resp[r] = 200) =>
      /\ espaco_usado[prev.pasta] = prev.usado
      /\ delta[r] = 0 - ceilMB(rq[r].row.tamanho_arquivo)

\* a 1-byte file: 1 MB charged, 1 MB freed
C12_Witness ==
  \E r \in Reqs :
    /\ UploadedJustBefore(r) /\ resp[r] = 200
    /\ rq[r].row.tamanho_arquivo = 1 /\ delta[r] = -1

\* SSHManager.deleteFile threw in this removal
RemoteDeleteFailed(r) == IsRemove(r) /\ Has(r, "rdel_failed")

\* C13: when the remote delete fails, the removal goes on: with its DELETE
\* and UPDATE succeeding it deletes the row, sets espaco_usado to
\* GREATEST(espaco_usado - ceil(size / 1 MiB), 0) and answers 200.
C13_RemoteDeleteFailureTolerated ==
  \A r \in Reqs :
    RemoteDeleteFailed(r) =>
      /\ pc[r] \in {"recdelete", "release", "done"}
      /\ (pc[r] = "done" /\ ~Has(r, "recdel_failed") /\ ~Has(r, "release_failed")) =>
           /\ resp[r] = 200
           /\ Has(r, "recdel") /\ Has(r, "release")
           /\ ~\E v \in videos : v.id = rq[r].videoId
           /\ delta[r] =
                Max(rq[r].usado - ceilMB(rq[r].row.tamanho_arquivo), 0) - rq[r].usado

C13_Witness ==
  \E r \in Reqs :
    /\ RemoteDeleteFailed(r) /\ resp[r] = 200 /\ delta[r] = -2
    /\ \E f \in remoteFiles : f.path = rq[r].row.caminho

\* the row belongs to the account: it is the row's owning account or the
\* owner of the row's folder
OwnsVideo(u, v) ==
  \/ v.codigo_cliente = u
  \/ v.pasta \in Codigos /\ Streaming(v.pasta).codigo_cliente = u

\* the remote path has the requester's login as its account segment
PathOfLogin(u, v) == v.caminho.login = removerLogin(u)

\* C14: a removal of a row that does not exist or is not the requester's
\* answers 404, one whose path lacks the requester's login answers 403, and
\* neither deletes a remote file, deletes a row or changes espaco_usado.
C14_UnownedRemovalNotFound ==
  \A r \in Reqs :
    /\ RowFound(r) => OwnsVideo(rq[r].user, rq[r].row)
    /\ (RowFound(r) /\ ~PathOfLogin(rq[r].user, rq[r].row)) =>
         pc[r] = "done" /\ resp[r] = 403
    /\ (IsRemove(r) /\ resp[r] \in {403, 404}) => trace[r] = <<>> /\ delta[r] = 0

\* the folder is a row of streamings owned by the account
OwnsFolder(u, f) == f \in Codigos /\ Streaming(f).codigo_cliente = u

\* C15: an upload naming a folder the account does not own, whatever the
\* account id and the folder id, is answered 404 once validated, with no
\* transfer, no row and espaco_usado untouched.
C15_UnownedFolderNotFound ==
  \A r \in Reqs :
    (IsUpload(r) /\ ~OwnsFolder(rq[r].user, rq[r].folder_id)) =>
      /\ ~rq[r].found
      /\ ~Has(r, "put") /\ ~Has(r, "insert") /\ delta[r] = 0
      /\ (resp[r] \notin {0, 400} /\ ~Has(r, "select_failed")) => resp[r] = 404

\* effect a was recorded by request r before effect b
Before(r, a, b) ==
  \E i, j \in 1..Len(trace[r]) : i < j /\ trace[r][i] = a /\ trace[r][j] = b

\* C16: espaco_usado has been raised by spaceMB before the remote transfer:
\* a request that has transferred its file has already run its UPDATE.
C16_ReservedBeforeTransfer ==
  \A r \in Reqs :
    (IsUpload(r) /\ Has(r, "put")) =>
      Before(r, "commit", "put") /\ delta[r] = rq[r].spaceMB

\* C17: every removal that answers 200 has called the SMIL refresh after
\* deleting the row and releasing the quota, remote delete failed or not.
C17_RemovalRefreshesManifestLast ==
  \A r \in Reqs :
    (IsRemove(r) /\ resp[r] = 200) =>
      /\ Before(r, "recdel", "release")
      /\ Before(r, "release", "smil") \/ Before(r, "release", "smil_failed")

\* C19: a row is inserted only after the request's transfer succeeded, and a
\* row is deleted only after the request attempted the remote delete.
C19_RecordFollowsRemoteStep ==
  \A r \in Reqs :
    /\ (IsUpload(r) /\ Has(r, "insert")) => Before(r, "put", "insert")
    /\ (IsRemove(r) /\ Has(r, "recdel")) =>
         Before(r, "rdel", "recdel") \/ Before(r, "rdel_failed", "recdel")

C19_Witness ==
  \E r, q \in Reqs :
    /\ IsUpload(r) /\ Has(r, "insert") /\ rq[r].insertId \in {v.id : v \in videos}
    /\ IsRemove(q) /\ Has(q, "recdel") /\ Has(q, "rdel_failed")

\* C20: an upload answered 400, 404 or 500 has inserted no row and left
\* espaco_usado as it was: rows and increments come from 201 requests only.
C20_FailedUploadLeavesNothing ==
  \A r \in Reqs :
    (IsUpload(r) /\ resp[r] \in {400, 404, 500}) =>
      ~Has(r, "insert") /\ ~Has(r, "commit") /\ delta[r] = 0

\* the upload passed the extension check and is about to probe its file
Validated(r) == IsUpload(r) /\ pc[r] = "probe"

\* C18: every validated upload is answered in the end, whatever the probe
\* process does, a process that never exits included.
C18_ValidatedUploadAnswered ==
  \A r \in Reqs : Validated(r) ~> (resp[r] # 0)

\* two requests remove the same row, which both of them found
SameRowRemovals(r, q) ==
  /\ r # q /\ RowFound(r) /\ RowFound(q)
  /\ rq[r].videoId = rq[q].videoId

\* C21: two concurrent removals of one row lower espaco_usado by the row's
\* ceil(size / 1 MiB) at most once: only one of them runs the UPDATE, and
\* together they free no more than the row's megabytes.
C21_ConcurrentRemovalsReleaseOnce ==
  \A r, q \in Reqs :
    SameRowRemovals(r, q) =>
      /\ ~(Has(r, "release") /\ Has(q, "release"))
      /\ 0 - (delta[r] + delta[q]) <= ceilMB(rq[r].row.tamanho_arquivo)

\* the upload has inserted its row
Inserted(r) == IsUpload(r) /\ Has(r, "insert")

\* C22: for every row an upload inserted, the needs_conversion the listing
\* derives from the stored row (is_mp4, codec_video and the format of nome)
\* is the needsConversion the upload computed, for every account listing it,
\* and compativel is 'nao' exactly when it is true.
C22_ListAgreesWithUpload ==
  \A r \in Reqs :
    Inserted(r) =>
      \A v \in RecordOf(r) :
        /\ \A u \in UserIds :
             listVerdict(v, userBitrateLimit(u)).needs_conversion = needsConversion(r)
        /\ (v.compativel = "nao") <=> needsConversion(r)

\* an .MP4 file probed as h264: no conversion on either path
C22_Witness ==
  \E r \in Reqs :
    /\ Inserted(r) /\ rq[r].originalname = ".MP4" /\ ~needsConversion(r)
    /\ \E v \in RecordOf(r) :
         v.compativel = "sim" /\ ~listVerdict(v, userBitrateLimit(1)).needs_conversion

====
